---- MODULE Spec2Model ----
(***************************************************************************)
(* LUMEN news pipeline (src/main.py, src/config.py): the AI-response       *)
(* ingestion path.  get_ai_summary_async looks a title up in the file      *)
(* cache, calls the generation API with bounded retries, parses the free   *)
(* text with parse_ai_response, writes the result through to the cache and *)
(* falls back to get_fallback_summary when no attempt gave a result.       *)
(* A run of main_async gathers one such call per feed entry and filters    *)
(* the annotated articles with remove_duplicates.                          *)
(*                                                                         *)
(* A string is a sequence of characters; a character is a one-element      *)
(* atom.  Hangul syllables are written by their romanisation ("je", "mok") *)
(* and each stands for one code point, so Len is Python's len.             *)
(***************************************************************************)
EXTENDS Integers, Sequences, FiniteSets, TLC

(***************************************************************************)
(* Characters and strings                                                  *)
(***************************************************************************)
NL == "\n"
SP == " "

\* str.strip() / the regex class \s: the whitespace of the modelled alphabet
IsSpace(c) == c \in {SP, NL}

\* the character class of asterisk and backquote ("bq") that re.sub removes
IsMarkup(c) == c \in {"*", "bq"}

\* n copies of the character c
Rep(c, n) == [i \in 1..n |-> c]

\* s[:n]
Take(s, n) == IF Len(s) <= n THEN s ELSE SubSeq(s, 1, n)

\* s[i:] with i a 1-based index
From(s, i) == IF i > Len(s) THEN << >> ELSE SubSeq(s, i, Len(s))

\* str.strip()
Strip(s) ==
    LET keep == {i \in 1..Len(s) : ~IsSpace(s[i])}
    IN  IF keep = {} THEN << >>
        ELSE LET lo == CHOOSE i \in keep : \A j \in keep : i <= j
                 hi == CHOOSE i \in keep : \A j \in keep : j <= i
             IN  SubSeq(s, lo, hi)

\* re.sub of the markup class by '' in s
RemoveMarkup(s) == SelectSeq(s, LAMBDA c : ~IsMarkup(c))

\* pat occurs in s at index i
PrefixAt(s, i, pat) ==
    /\ i >= 1
    /\ i + Len(pat) - 1 <= Len(s)
    /\ \A j \in 1..Len(pat) : s[i + j - 1] = pat[j]

\* pat in s
Contains(s, pat) == \E i \in 1..Len(s) : PrefixAt(s, i, pat)

\* least element of a non-empty set of integers
Least(S) == CHOOSE i \in S : \A j \in S : i <= j

\* the n-th smallest number of the set K
Nth(K, n) == CHOOSE i \in K : Cardinality({j \in K : j <= i}) = n

\* s.split('\n')
RECURSIVE SplitLines(_)
SplitLines(s) ==
    LET nls == {i \in 1..Len(s) : s[i] = NL}
    IN  IF nls = {} THEN << s >>
        ELSE LET k == Least(nls)
             IN  << SubSeq(s, 1, k - 1) >> \o SplitLines(From(s, k + 1))

(***************************************************************************)
(* config.py                                                               *)
(***************************************************************************)
\* CATEGORIES[0] = "기술/혁신"
DefaultCategory == << "gi", "sul", "/", "hyeok", "sin" >>

\* AI_CONFIG['max_retries']
max_retries == 2

\* CACHE_CONFIG['expiry_days']
expiry_days == 7

\* config.RSS_FEEDS[...]['max_news']
max_news == 5

\* config.PERFORMANCE_CONFIG['max_concurrent_requests']
max_concurrent_requests == 10

(***************************************************************************)
(* Labels of the response format and the templated sentences               *)
(***************************************************************************)
\* '제목:'  '카테고리:'  '짧은요약:'  '긴요약:'
LblTitle == << "je", "mok", ":" >>
LblCategory == << "ka", "te", "go", "ri", ":" >>
LblShort == << "jjalb", "eun", "yo", "yak", ":" >>
LblLong == << "gin", "yo", "yak", ":" >>

\* '**제목**:' and the other bold labels
BoldTitle == << "*", "*", "je", "mok", "*", "*", ":" >>
BoldCategory == << "*", "*", "ka", "te", "go", "ri", "*", "*", ":" >>
BoldShort == << "*", "*", "jjalb", "eun", "yo", "yak", "*", "*", ":" >>
BoldLong == << "*", "*", "gin", "yo", "yak", "*", "*", ":" >>

\* " 관련 뉴스입니다."
ShortSuffix == << SP, "gwan", "ryeon", SP, "nyu", "seu", "ip", "ni", "da", "." >>

\* " 관련 소식입니다. 자세한 내용은 원문을 참조하세요."
LongSuffix ==
    << SP, "gwan", "ryeon", SP, "so", "sik", "ip", "ni", "da", ".",
       SP, "ja", "se", "han", SP, "nae", "yong", "eun",
       SP, "won", "mun", "eul", SP, "cham", "jo", "ha", "se", "yo", "." >>

\* "..."
Ellipsis == << ".", ".", "." >>

(***************************************************************************)
(* re.search(label + r'\s*(.+)', text, re.IGNORECASE | re.MULTILINE)       *)
(***************************************************************************)
NoMatch == [found |-> FALSE, start |-> 0, group |-> << >>]

\* The capture of \s*(.+) tried right after a label that ends at index p - 1:
\* \s* is greedy over blanks and newlines, (.+) takes the rest of the line it
\* lands on; when only whitespace follows, backtracking gives the last blank
\* of the text to (.+), and a run of newlines alone matches nothing.
CaptureAt(text, p) ==
    LET solid == {i \in p..Len(text) : ~IsSpace(text[i])}
        blank == {i \in p..Len(text) : text[i] # NL}
    IN  IF solid # {}
        THEN LET q == Least(solid)
                 ends == {i \in q..Len(text) : text[i] = NL}
                 e == IF ends = {} THEN Len(text) ELSE Least(ends) - 1
             IN  [found |-> TRUE, group |-> SubSeq(text, q, e)]
        ELSE IF blank # {}
        THEN LET r == CHOOSE i \in blank : \A j \in blank : j <= i
             IN  [found |-> TRUE, group |-> << text[r] >>]
        ELSE [found |-> FALSE, group |-> << >>]

\* the leftmost match of label\s*(.+)
Search(label, text) ==
    LET hits == {i \in 1..Len(text) :
                    /\ PrefixAt(text, i, label)
                    /\ CaptureAt(text, i + Len(label)).found}
    IN  IF hits = {} THEN NoMatch
        ELSE LET i == Least(hits)
             IN  [found |-> TRUE, start |-> i,
                  group |-> CaptureAt(text, i + Len(label)).group]

\* with re.DOTALL (.+) also takes newlines: the label matches wherever at
\* least one character follows it
SearchDotAll(label, text) ==
    LET hits == {i \in 1..Len(text) :
                    PrefixAt(text, i, label) /\ i + Len(label) <= Len(text)}
    IN  IF hits = {} THEN NoMatch
        ELSE [found |-> TRUE, start |-> Least(hits), group |-> << >>]

\* for pattern in patterns: match = re.search(...); if match: ... break
FirstMatch(bold, plain, text) ==
    IF Search(bold, text).found THEN Search(bold, text) ELSE Search(plain, text)

(***************************************************************************)
(* parse_ai_response                                                       *)
(***************************************************************************)
\* s with its leading whitespace removed (the \s* after a label at line start)
DropLeadingSpace(s) ==
    LET solid == {i \in 1..Len(s) : ~IsSpace(s[i])}
    IN  IF solid = {} THEN << >> ELSE From(s, Least(solid))

\* re.sub of a long-summary label at the start of the line (bold or plain,
\* with the whitespace after it) by ''
StripLongLabel(line) ==
    IF PrefixAt(line, 1, BoldLong) THEN DropLeadingSpace(From(line, Len(BoldLong) + 1))
    ELSE IF PrefixAt(line, 1, LblLong) THEN DropLeadingSpace(From(line, Len(LblLong) + 1))
    ELSE line

\* the test of the line loop: a non-blank line that holds none of the three
\* other plain labels
KeepsLine(line) ==
    /\ Strip(line) # << >>
    /\ ~Contains(line, LblTitle)
    /\ ~Contains(line, LblCategory)
    /\ ~Contains(line, LblShort)

\* the body of the line loop: long_summary += clean_line.strip() + ' '
RECURSIVE JoinLines(_)
JoinLines(lines) ==
    IF lines = << >> THEN << >>
    ELSE LET line == Head(lines)
             clean == RemoveMarkup(StripLongLabel(line))
         IN  IF KeepsLine(line) /\ Strip(clean) # << >>
             THEN Strip(clean) \o << SP >> \o JoinLines(Tail(lines))
             ELSE JoinLines(Tail(lines))

\* the long summary rebuilt from text[match.start():]
LongFrom(text, start) == Strip(JoinLines(SplitLines(From(text, start))))

\* the loop over long_patterns: the bold pattern, then the plain one when the
\* bold one did not match or gave an empty summary
ExtractLong(text) ==
    LET b == SearchDotAll(BoldLong, text)
        p == SearchDotAll(LblLong, text)
        fromBold == IF b.found THEN LongFrom(text, b.start) ELSE << >>
    IN  IF fromBold # << >> THEN fromBold
        ELSE IF p.found THEN LongFrom(text, p.start)
        ELSE << >>

\* the value taken for the title and the category: group(1).strip() without
\* markup, first line
ExtractLine(m) == Head(SplitLines(RemoveMarkup(Strip(m.group))))

\* the value taken for the short summary: group(1).strip() without markup
ExtractShort(m) == RemoveMarkup(Strip(m.group))

\* Validate with the length test of the short summary left out
ValidateShortUnchecked(translated_title, short_summary, long_summary, category, original_title) ==
    LET tt == IF translated_title = << >> \/ Len(translated_title) < 5
              THEN Take(original_title, 50) ELSE translated_title
        ss == IF short_summary = << >>
              THEN tt \o ShortSuffix ELSE short_summary
        ls == IF long_summary = << >> \/ Len(long_summary) < 20
              THEN tt \o LongSuffix ELSE long_summary
    IN  [translated_title |-> tt, short_summary |-> ss,
         long_summary |-> ls, category |-> category]

\* Validate with the summaries templated before the title is replaced: a
\* synthesized summary is built on the extracted title
ValidateSummariesFirst(translated_title, short_summary, long_summary, category, original_title) ==
    LET ss == IF short_summary = << >> \/ Len(short_summary) < 10
              THEN translated_title \o ShortSuffix ELSE short_summary
        ls == IF long_summary = << >> \/ Len(long_summary) < 20
              THEN translated_title \o LongSuffix ELSE long_summary
        tt == IF translated_title = << >> \/ Len(translated_title) < 5
              THEN Take(original_title, 50) ELSE translated_title
    IN  [translated_title |-> tt, short_summary |-> ss,
         long_summary |-> ls, category |-> category]

\* The validation block (main.py 612-622) on the extracted fields.
Validate(translated_title, short_summary, long_summary, category, original_title) ==
    LET tt == IF translated_title = << >> \/ Len(translated_title) < 5
              THEN Take(original_title, 50) ELSE translated_title
        ss == IF short_summary = << >> \/ Len(short_summary) < 10
              THEN tt \o ShortSuffix ELSE short_summary
        ls == IF long_summary = << >> \/ Len(long_summary) < 20
              THEN tt \o LongSuffix ELSE long_summary
    IN  [translated_title |-> tt, short_summary |-> ss,
         long_summary |-> ls, category |-> category]

\* parse_ai_response whose category starts empty, not as CATEGORIES[0]
parse_ai_response_no_default(text, original_title) ==
    LET mt == FirstMatch(BoldTitle, LblTitle, text)
        mc == FirstMatch(BoldCategory, LblCategory, text)
        ms == FirstMatch(BoldShort, LblShort, text)
    IN  Validate(IF mt.found THEN ExtractLine(mt) ELSE Take(original_title, 50),
                 IF ms.found THEN ExtractShort(ms) ELSE << >>,
                 ExtractLong(text),
                 IF mc.found THEN ExtractLine(mc) ELSE << >>,
                 original_title)

\* main.py 552-622: the four extractions, then the validation block
parse_ai_response(text, original_title) ==
    LET mt == FirstMatch(BoldTitle, LblTitle, text)
        mc == FirstMatch(BoldCategory, LblCategory, text)
        ms == FirstMatch(BoldShort, LblShort, text)
        translated_title == IF mt.found THEN ExtractLine(mt)
                            ELSE Take(original_title, 50)
        category == IF mc.found THEN ExtractLine(mc) ELSE DefaultCategory
        short_summary == IF ms.found THEN ExtractShort(ms) ELSE << >>
        long_summary == ExtractLong(text)
    IN  Validate(translated_title, short_summary, long_summary, category,
                 original_title)

(***************************************************************************)
(* get_fallback_summary                                                    *)
(***************************************************************************)
get_fallback_summary(title) ==
    LET translated_title ==
            Take(title, 50) \o (IF Len(title) > 50 THEN Ellipsis ELSE << >>)
    IN  [translated_title |-> translated_title,
         short_summary |-> translated_title \o ShortSuffix,
         long_summary |-> translated_title \o LongSuffix,
         category |-> DefaultCategory]

(***************************************************************************)
(* Bounds and input sets                                                   *)
(***************************************************************************)
\* number of get_ai_summary_async calls of the run, numbered in the order
\* they start
NumTasks == 1

\* number of clock advances
MaxTicks == 1

\* number of feed entries of a run
MaxEntries == 2

\* number of articles handed to remove_duplicates alone
MaxNews == 3

\* number of feeds of a run
NumFeeds == 2

\* number of INSERT statements over the runs of the process
MaxSaves == 4

Tasks == 1..NumTasks

\* article titles: one character, and longer than the 50 kept by [:50]
TitleA == << "A" >>
TitleLong == Rep("c", 51)
Titles == {TitleA, TitleLong}

\* two titles of 72 ASCII characters, different in the 22nd, whose md5
\* digests are both faad49866e9498fc1719f5289e7a0269
TitleCollisionA ==
    << "T", "E", "X", "T", "C", "O", "L", "L", "B", "Y", "f", "G", "i", "J",
       "U", "E", "T", "H", "Q", "4", "h", "A", "c", "K", "S", "M", "d", "5",
       "z", "Y", "p", "g", "q", "f", "1", "Y", "R", "D", "h", "k", "m", "x",
       "H", "k", "h", "P", "W", "p", "t", "r", "k", "o", "y", "z", "2", "8",
       "w", "n", "I", "9", "V", "0", "a", "H", "e", "A", "u", "a", "K", "n",
       "a", "k" >>
TitleCollisionB ==
    << "T", "E", "X", "T", "C", "O", "L", "L", "B", "Y", "f", "G", "i", "J",
       "U", "E", "T", "H", "Q", "4", "h", "E", "c", "K", "S", "M", "d", "5",
       "z", "Y", "p", "g", "q", "f", "1", "Y", "R", "D", "h", "k", "m", "x",
       "H", "k", "h", "P", "W", "p", "t", "r", "k", "o", "y", "z", "2", "8",
       "w", "n", "I", "9", "V", "0", "a", "H", "e", "A", "u", "a", "K", "n",
       "a", "k" >>

\* the titles of the articles of a run
RunTitles == {TitleA, TitleCollisionA, TitleCollisionB}

\* the titles of deduplication alone: abcdf and ABCDE are within the
\* threshold of abcde (0.8 and 1.0), abcgf is within it of abcdf only
DedupTitles ==
    {<< "a", "b", "c", "d", "e" >>, << "a", "b", "c", "d", "f" >>,
     << "A", "B", "C", "D", "E" >>, << "a", "b", "c", "g", "f" >>,
     << "a", "b", "c", "d" >>}

AllTitles == Titles \cup RunTitles

\* response texts of the generation API
\* all four labels, every value long enough
TextFull ==
    LblTitle \o << SP >> \o Rep("t", 6) \o << NL >>
    \o LblCategory \o << SP, "r", "r", NL >>
    \o LblShort \o << SP >> \o Rep("s", 10) \o << NL >>
    \o LblLong \o << SP >> \o Rep("l", 20)
\* no label at all
TextNone == << "h", "i" >>
\* a category label whose value is markup only
TextBlankCategory ==
    LblTitle \o << SP >> \o Rep("t", 6) \o << NL >>
    \o LblCategory \o << SP, "*", "*" >>
\* labelled values that are all too short
TextShortFields ==
    LblTitle \o << SP, "a", "b", NL >>
    \o LblShort \o << SP, "a", "b", "c", NL >>
    \o LblLong \o << SP, "a", "b", "c", "d" >>
\* bold labels, markup around the values, a long summary over two lines
TextBold ==
    BoldTitle \o << SP, "bq" >> \o Rep("t", 5) \o << "bq", NL >>
    \o BoldLong \o << SP >> \o Rep("l", 10) \o << NL >> \o Rep("m", 10)
ApiTexts == {TextFull, TextNone, TextBlankCategory, TextShortFields, TextBold}

\* the four labels the prompt asks for
Labels == {"title", "category", "short", "long"}

\* one labelled line of a response, plain or bold, its value long enough
LabelLine(label, bold) ==
    CASE label = "title" ->
            (IF bold THEN BoldTitle ELSE LblTitle) \o << SP >> \o Rep("t", 6)
      [] label = "category" ->
            (IF bold THEN BoldCategory ELSE LblCategory) \o << SP, "r", "r" >>
      [] label = "short" ->
            (IF bold THEN BoldShort ELSE LblShort) \o << SP >> \o Rep("s", 10)
      [] label = "long" ->
            (IF bold THEN BoldLong ELSE LblLong) \o << SP >> \o Rep("l", 20)

\* a response with the labelled lines of the set present, in the order of
\* the prompt, after a line without label
LabelText(present, bold) ==
    LET Line(label) == IF label \in present
                       THEN << NL >> \o LabelLine(label, bold) ELSE << >>
    IN  TextNone \o Line("title") \o Line("category") \o Line("short")
        \o Line("long")

\* the responses of every subset of the labels, plain and bold
LabelTexts == {LabelText(present, bold) : present \in SUBSET Labels, bold \in BOOLEAN}

\* parse_ai_response on the inputs of the model, computed once
ParseTable ==
    [title \in AllTitles |->
        [text \in ApiTexts \cup LabelTexts |-> parse_ai_response(text, title)]]

\* clock advances, in days: up to the expiry age, and past it
TickSteps == {expiry_days, expiry_days + 1}

(***************************************************************************)
(* Deduplication: calculate_similarity, is_duplicate, remove_duplicates    *)
(***************************************************************************)
\* similarity_threshold 0.8, counted in tenths
similarity_threshold == 8

UpperCase == << "A", "B", "C", "D", "E", "F", "G", "H", "I", "J", "K", "L", "M", "N", "O", "P", "Q", "R", "S", "T", "U", "V", "W", "X", "Y", "Z" >>
LowerCase == << "a", "b", "c", "d", "e", "f", "g", "h", "i", "j", "k", "l", "m", "n", "o", "p", "q", "r", "s", "t", "u", "v", "w", "x", "y", "z" >>

\* str.lower()
Lower(s) ==
    [i \in 1..Len(s) |->
        IF \E n \in 1..Len(UpperCase) : UpperCase[n] = s[i]
        THEN LowerCase[CHOOSE n \in 1..Len(UpperCase) : UpperCase[n] = s[i]]
        ELSE s[i]]

\* the length of the run of equal characters that starts at a[i] and b[j]
\* and stays below ahi and bhi (indices from 0, as in difflib)
RECURSIVE RunFrom(_, _, _, _, _, _)
RunFrom(a, b, i, j, ahi, bhi) ==
    IF i < ahi /\ j < bhi /\ a[i + 1] = b[j + 1]
    THEN 1 + RunFrom(a, b, i + 1, j + 1, ahi, bhi)
    ELSE 0

\* SequenceMatcher.find_longest_match without junk: the longest block common
\* to a[alo:ahi] and b[blo:bhi]; of the longest ones the earliest in a, and
\* of those the earliest in b
find_longest_match(a, b, alo, ahi, blo, bhi) ==
    LET size == [i \in alo..(ahi - 1) |->
                    [j \in blo..(bhi - 1) |-> RunFrom(a, b, i, j, ahi, bhi)]]
        sizes == {size[i][j] : i \in alo..(ahi - 1), j \in blo..(bhi - 1)}
        bestsize == IF sizes = {} THEN 0
                    ELSE CHOOSE k \in sizes : \A n \in sizes : n <= k
    IN  IF bestsize = 0 THEN [a |-> alo, b |-> blo, size |-> 0]
        ELSE LET besti == Least({i \in alo..(ahi - 1) :
                                    \E j \in blo..(bhi - 1) : size[i][j] = bestsize})
                 bestj == Least({j \in blo..(bhi - 1) : size[besti][j] = bestsize})
             IN  [a |-> besti, b |-> bestj, size |-> bestsize]

\* the characters in SequenceMatcher.get_matching_blocks: the longest block,
\* then the blocks to its left and to its right
RECURSIVE Matches(_, _, _, _, _, _)
Matches(a, b, alo, ahi, blo, bhi) ==
    LET m == find_longest_match(a, b, alo, ahi, blo, bhi)
    IN  IF m.size = 0 THEN 0
        ELSE m.size
             + Matches(a, b, alo, m.a, blo, m.b)
             + Matches(a, b, m.a + m.size, ahi, m.b + m.size, bhi)

\* SequenceMatcher(None, a, b).ratio() as the fraction num / den; difflib
\* gives 1.0 for two empty strings
ratio(a, b) ==
    IF Len(a) + Len(b) = 0 THEN [num |-> 1, den |-> 1]
    ELSE [num |-> 2 * Matches(a, b, 0, Len(a), 0, Len(b)),
          den |-> Len(a) + Len(b)]

\* ratio of the lowercased titles of the model, computed once
SimilarityTable ==
    [text1 \in AllTitles \cup DedupTitles |->
        [text2 \in AllTitles \cup DedupTitles |->
            ratio(Lower(text1), Lower(text2))]]

\* SequenceMatcher(None, text1.lower(), text2.lower()).ratio()
calculate_similarity(text1, text2) ==
    IF text1 \in DOMAIN SimilarityTable /\ text2 \in DOMAIN SimilarityTable
    THEN SimilarityTable[text1][text2]
    ELSE ratio(Lower(text1), Lower(text2))

\* similarity >= threshold
AtLeastThreshold(sim) == 10 * sim.num >= similarity_threshold * sim.den

\* is_duplicate with > for >=: a similarity of exactly 0.8 is no duplicate
is_duplicate_above(title, seen_titles) ==
    \E n \in 1..Len(seen_titles) :
        LET sim == calculate_similarity(title, seen_titles[n])
        IN  10 * sim.num > similarity_threshold * sim.den

is_duplicate(title, seen_titles) ==
    \E n \in 1..Len(seen_titles) :
        AtLeastThreshold(calculate_similarity(title, seen_titles[n]))

\* the loop of remove_duplicates from news_list[n] on, with the unique_news
\* kept so far; seen_titles is the list of their titles
RECURSIVE DedupFrom(_, _, _)
DedupFrom(news_list, n, unique_news) ==
    IF n > Len(news_list) THEN unique_news
    ELSE LET news == news_list[n]
             seen_titles == [k \in 1..Len(unique_news) |->
                                unique_news[k].original_title]
         IN  IF is_duplicate(news.original_title, seen_titles)
             THEN DedupFrom(news_list, n + 1, unique_news)
             ELSE DedupFrom(news_list, n + 1, Append(unique_news, news))

remove_duplicates(news_list) == DedupFrom(news_list, 1, << >>)

(***************************************************************************)
(* State                                                                   *)
(***************************************************************************)
VARIABLES
    cache,     \* cache directory: cache key -> file (annotation, mtime) or none
    now,       \* datetime.now(), in days
    ticks,     \* clock advances so far
    tasks,     \* the get_ai_summary_async calls: locals, position and history
    finished,  \* the calls that returned, in the order they returned
    run,       \* main_async: its position and its lists of articles
    db         \* the news table of the SQLite file

vars == << cache, now, ticks, tasks, finished, run, db >>

\* Optional[Tuple[...]] without a value
None == [translated_title |-> << >>, short_summary |-> << >>,
         long_summary |-> << >>, category |-> << >>]

\* hashlib.md5(title.encode('utf-8')).hexdigest(): a digest of the title and
\* nothing else; the two collision titles have one digest, every other
\* title of the model has a digest of its own
get_cache_key(title) ==
    IF title \in {TitleCollisionA, TitleCollisionB}
    THEN << "md5" >> \o TitleCollisionA
    ELSE << "md5" >> \o title

Keys == {get_cache_key(ti) : ti \in AllTitles}

\* A cache file: the title and the annotation json.dump wrote, the file's
\* mtime, and the call that wrote it (0: an earlier run).  NoFile: no file.
NoFile == [exists |-> FALSE, original_title |-> << >>, data |-> None,
           mtime |-> 0, by |-> 0]

\* what asyncio.gather(return_exceptions=True) lists for a call that raised
Raised == [translated_title |-> << >>, short_summary |-> << >>,
           long_summary |-> << >>, category |-> << "Exception" >>]

\* a call that has not started
IdleTask ==
    [pc |-> "idle", title |-> << >>, attempt |-> 0, calls |-> 0,
     hist |-> << >>, waits |-> << >>, result |-> None, path |-> "none"]

(***************************************************************************)
(* The file cache                                                          *)
(***************************************************************************)
\* Expired with >= for >: a file of exactly expiry_days counts as expired
ExpiredAtLimit(c, key, t) == t - c[key].mtime >= expiry_days

\* datetime.now() - file_time > timedelta(days=expiry_days)
Expired(c, key, t) == t - c[key].mtime > expiry_days

\* get_cached_summary that returns the two summaries in each other's place
get_cached_summary_swapped(c, title, t) ==
    LET key == get_cache_key(title)
    IN  IF ~c[key].exists THEN None
        ELSE IF Expired(c, key, t) THEN None
        ELSE [c[key].data EXCEPT !.short_summary = c[key].data.long_summary,
                                 !.long_summary = c[key].data.short_summary]

\* a file that json.load or the four subscripts reject: a write that failed
\* after open(cache_file, 'w') left it without a record
Unreadable(file) == file.data = None

\* the value get_cached_summary returns; an unreadable file raises inside
\* the try block and the except clause returns None
get_cached_summary(c, title, t) ==
    LET key == get_cache_key(title)
    IN  IF ~c[key].exists THEN None
        ELSE IF Expired(c, key, t) THEN None
        ELSE IF Unreadable(c[key]) THEN None
        ELSE c[key].data

\* CacheAfterLookup without os.remove: the expired file stays
CacheAfterLookupKeeps(c, title, t) == c

\* the cache directory after get_cached_summary: os.remove of an expired file
CacheAfterLookup(c, title, t) ==
    LET key == get_cache_key(title)
    IN  IF c[key].exists /\ Expired(c, key, t)
        THEN [c EXCEPT ![key] = NoFile]
        ELSE c

\* save_to_cache that writes nothing
save_to_cache_dropped(c, title, parsed, t, by) == c

\* save_to_cache that leaves a file with the first two fields only
save_to_cache_partial(c, title, parsed, t, by) ==
    [c EXCEPT ![get_cache_key(title)] =
        [exists |-> TRUE, original_title |-> title,
         data |-> [parsed EXCEPT !.long_summary = << >>, !.category = << >>],
         mtime |-> t, by |-> by]]

\* the cache directory after save_to_cache: open(cache_file, 'w'), json.dump
save_to_cache(c, title, parsed, t, by) ==
    [c EXCEPT ![get_cache_key(title)] =
        [exists |-> TRUE, original_title |-> title, data |-> parsed,
         mtime |-> t, by |-> by]]

(***************************************************************************)
(* get_ai_summary_async: the steps of one call between suspension points   *)
(***************************************************************************)
\* one attempt's outcome as the history keeps it
Outcome(kind, text) == [kind |-> kind, text |-> text]

\* the attempt is over: its outcome, and the seconds slept after it (0: none)
Record(r, o, wait) ==
    [r EXCEPT !.hist = Append(@, o), !.waits = Append(@, wait)]

\* async with session.post(...): the request of the current attempt goes out
PostRequest(r) == [r EXCEPT !.pc = "request", !.calls = @ + 1]

\* if cached: return cached
ReturnCached(r, title, cached) ==
    [r EXCEPT !.pc = "done", !.title = title, !.result = cached,
              !.path = "cache"]

\* return get_fallback_summary(title), after the loop
ReturnFallback(r) ==
    [r EXCEPT !.pc = "done", !.result = get_fallback_summary(r.title),
              !.path = "fallback"]

\* save_to_cache(title, *parsed); return parsed
ReturnParsed(r, parsed) ==
    [r EXCEPT !.pc = "done", !.result = parsed, !.path = "parsed"]

\* NextIteration with range(max_retries + 1): one attempt too many
NextIterationOneMore(r) ==
    IF r.attempt + 1 <= max_retries
    THEN PostRequest([r EXCEPT !.attempt = @ + 1])
    ELSE ReturnFallback(r)

\* for attempt in range(max_retries): the next iteration, or the loop's end
NextIteration(r) ==
    IF r.attempt + 1 < max_retries
    THEN PostRequest([r EXCEPT !.attempt = @ + 1])
    ELSE ReturnFallback(r)

\* wait_time as the fixed delay of the timeout branch
wait_time_fixed(attempt) == 1

\* wait_time = 2 ** attempt
wait_time(attempt) == 2 ^ attempt

\* a step of call t: when it is the step the call returns by, the call is
\* the latest to have finished
Completion(t) ==
    finished' = IF tasks[t].pc # "done" /\ tasks'[t].pc = "done"
                THEN Append(finished, t)
                ELSE finished

\* The call starts: get_cached_summary, then either the cached value is
\* returned or the first request is sent.
Start(t, title) ==
    /\ tasks[t].pc = "idle"
    /\ \A u \in DOMAIN tasks : u < t => tasks[u].pc # "idle"
    /\ LET cached == get_cached_summary(cache, title, now)
       IN  tasks' = [tasks EXCEPT ![t] =
                IF cached # None
                THEN ReturnCached(@, title, cached)
                ELSE PostRequest([@ EXCEPT !.title = title, !.attempt = 0])]
    /\ cache' = CacheAfterLookup(cache, title, now)
    /\ Completion(t)
    /\ UNCHANGED << now, ticks, run, db >>

\* status 200 with a non-empty text: parse, cache, return
OnText(t, text) ==
    /\ tasks[t].pc = "request"
    /\ LET r == Record(tasks[t], Outcome("text", text), 0)
           parsed == ParseTable[r.title][text]
       IN  IF parsed # None
           THEN /\ cache' = save_to_cache(cache, r.title, parsed, now, t)
                /\ tasks' = [tasks EXCEPT ![t] = ReturnParsed(r, parsed)]
           ELSE /\ cache' = cache
                /\ tasks' = [tasks EXCEPT ![t] = NextIteration(r)]
    /\ Completion(t)
    /\ UNCHANGED << now, ticks, run, db >>

\* status 200 whose JSON has no candidates, no content or parts key, or an
\* empty or missing text: the warning, then the next iteration
EmptyShapes == {"no_candidates", "no_parts", "empty_text"}

OnEmptyBody(t, shape) ==
    /\ tasks[t].pc = "request"
    /\ shape \in EmptyShapes
    /\ tasks' = [tasks EXCEPT ![t] =
                    NextIteration(Record(@, Outcome("empty_body", << >>), 0))]
    /\ Completion(t)
    /\ UNCHANGED << cache, now, ticks, run, db >>

\* OnEmptyParts without the except clause: the IndexError leaves the call
OnEmptyPartsEscapes(t) ==
    /\ tasks[t].pc = "request"
    /\ tasks' = [tasks EXCEPT ![t] =
                    [Record(@, Outcome("empty_parts", << >>), 0)
                        EXCEPT !.pc = "done", !.result = Raised,
                               !.path = "raised"]]
    /\ Completion(t)
    /\ UNCHANGED << cache, now, ticks, run, db >>

\* status 200 whose parts list is empty: parts[0] raises IndexError, which
\* the except Exception clause answers with break
OnEmptyParts(t) ==
    /\ tasks[t].pc = "request"
    /\ tasks' = [tasks EXCEPT ![t] =
                    ReturnFallback(Record(@, Outcome("empty_parts", << >>), 0))]
    /\ Completion(t)
    /\ UNCHANGED << cache, now, ticks, run, db >>

\* OnRateLimit that gives up at once, as the except Exception clause does
OnRateLimitBreak(t) ==
    /\ tasks[t].pc = "request"
    /\ tasks' = [tasks EXCEPT ![t] =
                    ReturnFallback(Record(@, Outcome("status429", << >>),
                                          wait_time(@.attempt)))]
    /\ Completion(t)
    /\ UNCHANGED << cache, now, ticks, run, db >>

\* status 429: await asyncio.sleep(2 ** attempt); continue
OnRateLimit(t) ==
    /\ tasks[t].pc = "request"
    /\ tasks' = [tasks EXCEPT ![t] =
                    [Record(@, Outcome("status429", << >>), wait_time(@.attempt))
                        EXCEPT !.pc = "sleep"]]
    /\ Completion(t)
    /\ UNCHANGED << cache, now, ticks, run, db >>

\* any other status: logged, then the next iteration
OnOtherStatus(t) ==
    /\ tasks[t].pc = "request"
    /\ tasks' = [tasks EXCEPT ![t] =
                    NextIteration(Record(@, Outcome("status_other", << >>), 0))]
    /\ Completion(t)
    /\ UNCHANGED << cache, now, ticks, run, db >>

\* except asyncio.TimeoutError: await asyncio.sleep(1)
OnTimeout(t) ==
    /\ tasks[t].pc = "request"
    /\ tasks' = [tasks EXCEPT ![t] =
                    [Record(@, Outcome("timeout", << >>), 1) EXCEPT !.pc = "sleep"]]
    /\ Completion(t)
    /\ UNCHANGED << cache, now, ticks, run, db >>

\* OnException that caches the fallback it returns
OnExceptionCaching(t) ==
    /\ tasks[t].pc = "request"
    /\ tasks' = [tasks EXCEPT ![t] =
                    ReturnFallback(Record(@, Outcome("exception", << >>), 0))]
    /\ cache' = save_to_cache(cache, tasks[t].title,
                              get_fallback_summary(tasks[t].title), now, t)
    /\ Completion(t)
    /\ UNCHANGED << now, ticks, run, db >>

\* OnException without the except clause: the exception leaves the call
OnExceptionEscapes(t) ==
    /\ tasks[t].pc = "request"
    /\ tasks' = [tasks EXCEPT ![t] =
                    [Record(@, Outcome("exception", << >>), 0)
                        EXCEPT !.pc = "done", !.result = Raised,
                               !.path = "raised"]]
    /\ Completion(t)
    /\ UNCHANGED << cache, now, ticks, run, db >>

\* except Exception (a connection or client error of the request, a body
\* that is not JSON): break
OnException(t) ==
    /\ tasks[t].pc = "request"
    /\ tasks' = [tasks EXCEPT ![t] =
                    ReturnFallback(Record(@, Outcome("exception", << >>), 0))]
    /\ Completion(t)
    /\ UNCHANGED << cache, now, ticks, run, db >>

\* Wake into a loop that starts over: the attempts are counted from 0 again
WakeRestart(t) ==
    /\ tasks[t].pc = "sleep"
    /\ tasks' = [tasks EXCEPT ![t] =
                    PostRequest([IdleTask EXCEPT !.title = tasks[t].title])]
    /\ Completion(t)
    /\ UNCHANGED << cache, now, ticks, run, db >>

\* asyncio.sleep returns: the loop goes on
Wake(t) ==
    /\ tasks[t].pc = "sleep"
    /\ tasks' = [tasks EXCEPT ![t] = NextIteration(@)]
    /\ Completion(t)
    /\ UNCHANGED << cache, now, ticks, run, db >>

\* the clock advances
Tick(d) ==
    /\ ticks < MaxTicks
    /\ now' = now + d
    /\ ticks' = ticks + 1
    /\ UNCHANGED << cache, tasks, finished, run, db >>

(***************************************************************************)
(* The news table                                                          *)
(***************************************************************************)
\* the table after CREATE TABLE on a new file: no row, and the AUTOINCREMENT
\* counter of the id column at 0
EmptyDb == [rows |-> {}, seq |-> 0]

\* the row an INSERT writes for an article, with the id it is given
Row(id, news) ==
    [id |-> id, original_title |-> news.original_title,
     translated_title |-> news.translated_title,
     short_summary |-> news.short_summary,
     long_summary |-> news.long_summary, category |-> news.category,
     url |-> news.url]

\* INSERT without OR REPLACE: the UNIQUE constraint of url raises
\* sqlite3.IntegrityError and the loop goes on, the old row stays
insert_or_ignore(d, news) ==
    IF \E r \in d.rows : r.url = news.url
    THEN d
    ELSE [rows |-> d.rows \cup {Row(d.seq + 1, news)}, seq |-> d.seq + 1]

\* INSERT OR REPLACE INTO news ...: url is UNIQUE, so the row of the same
\* url is deleted and the new row is inserted under a new id
insert_or_replace(d, news) ==
    [rows |-> {r \in d.rows : r.url # news.url} \cup {Row(d.seq + 1, news)},
     seq |-> d.seq + 1]

\* for news in news_data: cursor.execute(...), from the n-th article on
RECURSIVE SaveFrom(_, _, _)
SaveFrom(d, news_data, n) ==
    IF n > Len(news_data)
    THEN d
    ELSE SaveFrom(insert_or_replace(d, news_data[n]), news_data, n + 1)

save_news_to_db(d, news_data) == SaveFrom(d, news_data, 1)

\* main_async before fetch_rss_feeds_async has collected an entry: the API
\* key is set, no feed has answered, nothing is rendered
NoRun == [pc |-> "annotating", key |-> TRUE, feeds |-> << >>,
          entries |-> << >>, all_news |-> << >>, unique_news |-> << >>,
          html |-> << >>]

\* The cache directory outlives the process: a run starts with the files
\* earlier runs left, each written by save_to_cache for its own title.
PriorFiles(title) ==
    {NoFile,
     [exists |-> TRUE, original_title |-> title,
      data |-> ParseTable[title][TextFull], mtime |-> 0, by |-> 0]}

Init ==
    /\ cache \in {c \in [Keys -> UNION {PriorFiles(ti) : ti \in Titles}] :
                    /\ \A ti \in Titles : c[get_cache_key(ti)] \in PriorFiles(ti)
                    /\ \A ti \in AllTitles \ Titles :
                          c[get_cache_key(ti)] = NoFile}
    /\ now = 0
    /\ ticks = 0
    /\ tasks = [t \in Tasks |-> IdleTask]
    /\ finished = << >>
    /\ run = NoRun
    /\ db = EmptyDb

Next ==
    \/ \E t \in Tasks, title \in Titles : Start(t, title)
    \/ \E t \in Tasks, text \in ApiTexts : OnText(t, text)
    \/ \E t \in Tasks, shape \in EmptyShapes : OnEmptyBody(t, shape)
    \/ \E t \in Tasks : OnEmptyParts(t)
    \/ \E t \in Tasks : OnRateLimit(t)
    \/ \E t \in Tasks : OnOtherStatus(t)
    \/ \E t \in Tasks : OnTimeout(t)
    \/ \E t \in Tasks : OnException(t)
    \/ \E t \in Tasks : Wake(t)
    \/ \E d \in TickSteps : Tick(d)

Spec == Init /\ [][Next]_vars

(***************************************************************************)
(* A run of main_async: process_entries_async starts one call per entry   *)
(* and gathers them, fetch_rss_feeds_async joins the feeds' lists in feed  *)
(* order, then remove_duplicates filters the annotated list.               *)
(***************************************************************************)
\* entry_data: what process_entries_async keeps of a feed entry
Entry(title, url, priority) ==
    [original_title |-> title, url |-> url, priority |-> priority]

\* the entries the feeds can deliver: one title under two URLs in two feeds,
\* and the two collision titles
RunEntries ==
    {Entry(TitleA, "u1", 1), Entry(TitleA, "u2", 2),
     Entry(TitleCollisionA, "u3", 1), Entry(TitleCollisionB, "u4", 2)}

\* lists of different entries, in feed order
EntryLists ==
    {e \in UNION {[1..n -> RunEntries] : n \in 1..MaxEntries} :
        \A i, j \in DOMAIN e : i < j => /\ e[i] # e[j]
                                       /\ e[i].priority <= e[j].priority}

\* the response texts of a run
RunTexts == {TextFull, TextBold}

\* {**entry_data, 'translated_title': ..., ..., 'category': ...}
News(entry_data, ai_result) ==
    [original_title |-> entry_data.original_title, url |-> entry_data.url,
     priority |-> entry_data.priority,
     translated_title |-> ai_result.translated_title,
     short_summary |-> ai_result.short_summary,
     long_summary |-> ai_result.long_summary,
     category |-> ai_result.category]

\* results listed as the calls finished
ai_results_as_completed(r, done) == [i \in DOMAIN r |-> r[done[i]].result]

\* await asyncio.gather(*tasks): the results in the order of the awaitables
ai_results(r, done) == [i \in DOMAIN r |-> r[i].result]

\* zip(entries_data, ai_results), without the pairs whose result is an
\* exception
news_list(entries_data, results) ==
    LET kept == {i \in DOMAIN entries_data : results[i] # Raised}
    IN  [n \in 1..Cardinality(kept) |->
            News(entries_data[Nth(kept, n)], results[Nth(kept, n)])]

\* get_ai_summary_async(session, original_title) of the t-th entry starts
RunStart(t) ==
    /\ run.pc = "annotating"
    /\ Start(t, run.entries[t].original_title)

\* every call has returned: gather hands the results over, the records are
\* built and fetch_rss_feeds_async returns all_news
Gather ==
    /\ run.pc = "annotating"
    /\ \A t \in DOMAIN tasks : tasks[t].pc = "done"
    /\ run' = [run EXCEPT !.pc = "fetched",
                          !.all_news = news_list(run.entries,
                                                 ai_results(tasks, finished))]
    /\ UNCHANGED << cache, now, ticks, tasks, finished, db >>

\* news_data = remove_duplicates(news_data)
Dedup ==
    /\ run.pc = "fetched"
    /\ run.all_news # << >>
    /\ run' = [run EXCEPT !.pc = "deduped",
                          !.unique_news = remove_duplicates(run.all_news)]
    /\ UNCHANGED << cache, now, ticks, tasks, finished, db >>

\* clean_old_cache has run and the directory is taken as empty
RunInit ==
    /\ cache = [k \in Keys |-> NoFile]
    /\ now = 0
    /\ ticks = 0
    /\ finished = << >>
    /\ db = EmptyDb
    /\ \E e \in EntryLists :
          /\ run = [NoRun EXCEPT !.entries = e]
          /\ tasks = [t \in DOMAIN e |-> IdleTask]

RunNext ==
    \/ \E t \in DOMAIN tasks : RunStart(t)
    \/ \E t \in DOMAIN tasks, text \in RunTexts : OnText(t, text)
    \/ \E t \in DOMAIN tasks : OnRateLimit(t)
    \/ \E t \in DOMAIN tasks : OnOtherStatus(t)
    \/ \E t \in DOMAIN tasks : OnTimeout(t)
    \/ \E t \in DOMAIN tasks : OnException(t)
    \/ \E t \in DOMAIN tasks : Wake(t)
    \/ Gather
    \/ Dedup

SpecRun == RunInit /\ [][RunNext]_vars

(***************************************************************************)
(* The calls of a run whose requests are all answered with a text, while   *)
(* the clock advances: lookups and stores at different ages of a file      *)
(***************************************************************************)
ExpiryNext ==
    \/ \E t \in DOMAIN tasks : RunStart(t)
    \/ \E t \in DOMAIN tasks, text \in RunTexts : OnText(t, text)
    \/ \E d \in TickSteps : Tick(d)

SpecExpiry == RunInit /\ [][ExpiryNext]_vars

(***************************************************************************)
(* Calls whose cache reads and writes can fail                             *)
(***************************************************************************)
\* the file a failed write leaves when open(cache_file, 'w') succeeded
Truncated(title, t, by) ==
    [exists |-> TRUE, original_title |-> << >>, data |-> None, mtime |-> t,
     by |-> by]

\* StartReadFails without the try block: the exception leaves the call
StartReadRaises(t, title) ==
    /\ tasks[t].pc = "idle"
    /\ \A u \in DOMAIN tasks : u < t => tasks[u].pc # "idle"
    /\ cache[get_cache_key(title)].exists
    /\ tasks' = [tasks EXCEPT ![t] =
                    [@ EXCEPT !.pc = "done", !.title = title,
                              !.result = Raised, !.path = "raised"]]
    /\ cache' = cache
    /\ Completion(t)
    /\ UNCHANGED << now, ticks, run, db >>

\* The call starts and get_cached_summary fails on the file of the title
\* (getmtime, os.remove, open or json.load raises): the except clause
\* returns None, the file stays and the first request is sent.
StartReadFails(t, title) ==
    /\ tasks[t].pc = "idle"
    /\ \A u \in DOMAIN tasks : u < t => tasks[u].pc # "idle"
    /\ cache[get_cache_key(title)].exists
    /\ tasks' = [tasks EXCEPT ![t] =
                    PostRequest([@ EXCEPT !.title = title, !.attempt = 0])]
    /\ cache' = cache
    /\ Completion(t)
    /\ UNCHANGED << now, ticks, run, db >>

\* status 200 with a text, and save_to_cache fails: open raises and the
\* directory is as before, or json.dump raises and the file is left
\* truncated; the except clause logs it and the parsed annotation is returned
OnTextWriteFails(t, text) ==
    /\ tasks[t].pc = "request"
    /\ LET r == Record(tasks[t], Outcome("text", text), 0)
           key == get_cache_key(r.title)
       IN  /\ tasks' = [tasks EXCEPT ![t] = ReturnParsed(r, ParseTable[r.title][text])]
           /\ \/ cache' = cache
              \/ cache' = [cache EXCEPT ![key] = Truncated(r.title, now, t)]
    /\ Completion(t)
    /\ UNCHANGED << now, ticks, run, db >>

IONext ==
    \/ \E t \in Tasks, title \in Titles : Start(t, title)
    \/ \E t \in Tasks, title \in Titles : StartReadFails(t, title)
    \/ \E t \in Tasks, text \in ApiTexts : OnText(t, text)
    \/ \E t \in Tasks, text \in ApiTexts : OnTextWriteFails(t, text)
    \/ \E t \in Tasks : OnRateLimit(t)
    \/ \E t \in Tasks : OnException(t)
    \/ \E t \in Tasks : Wake(t)
    \/ \E d \in TickSteps : Tick(d)

SpecIO == Init /\ [][IONext]_vars

(***************************************************************************)
(* remove_duplicates on its own                                            *)
(***************************************************************************)
\* lists of articles with the titles of deduplication, the n-th with URL n,
\* each with the annotation of a call that fell back
NewsLists ==
    {[i \in DOMAIN titles |->
        News(Entry(titles[i], i, 1), get_fallback_summary(titles[i]))] :
     titles \in UNION {[1..n -> DedupTitles] : n \in 0..MaxNews}}

DedupInit ==
    /\ cache = [k \in Keys |-> NoFile]
    /\ now = 0
    /\ ticks = 0
    /\ tasks = << >>
    /\ finished = << >>
    /\ db = EmptyDb
    /\ \E l \in NewsLists : run = [NoRun EXCEPT !.pc = "fetched", !.all_news = l]

DedupNext == Dedup

SpecDedup == DedupInit /\ [][DedupNext]_vars

(***************************************************************************)
(* The process from its start: the API key is checked when the module is   *)
(* loaded, main_async initialises the cache and the database, the feeds    *)
(* are fetched and their entries annotated, and the list is deduplicated,  *)
(* saved and rendered.                                                     *)
(***************************************************************************)
\* clean_old_cache with >= for >: a file of exactly expiry_days is removed
clean_old_cache_at_limit(c, t) ==
    [k \in DOMAIN c |->
        IF c[k].exists /\ ExpiredAtLimit(c, k, t) THEN NoFile ELSE c[k]]

\* clean_old_cache: os.remove of every file older than expiry_days
clean_old_cache(c, t) ==
    [k \in DOMAIN c |-> IF c[k].exists /\ Expired(c, k, t) THEN NoFile ELSE c[k]]

\* what feedparser.parse does for a feed: it returns entries, returns none
\* (an unreachable or empty feed), or raises
FeedFailures ==
    {[kind |-> "raises", entries |-> << >>],
     [kind |-> "no_entries", entries |-> << >>]}

FeedResults(priority) ==
    FeedFailures \cup
    {[kind |-> "entries", entries |-> e] :
        e \in {l \in EntryLists :
                  \A i \in DOMAIN l : l[i].priority = priority}}

\* fetch_single_feed_async up to the calls it starts: the entries of the
\* feed that are annotated, none when the feed fails or has none
fetch_single_feed(feed) ==
    IF feed.kind = "entries" THEN Take(feed.entries, max_news) ELSE << >>

\* for result in results: all_news.extend(result), from the n-th feed on
RECURSIVE ExtendFrom(_, _)
ExtendFrom(feeds, n) ==
    IF n > Len(feeds)
    THEN << >>
    ELSE fetch_single_feed(feeds[n]) \o ExtendFrom(feeds, n + 1)

\* fetch_rss_feeds_async where the exception of one feed ends the gather:
\* no entry of any feed is collected
fetch_rss_feeds_aborting(feeds) ==
    IF \E n \in DOMAIN feeds : feeds[n].kind = "raises"
    THEN << >>
    ELSE ExtendFrom(feeds, 1)

\* fetch_rss_feeds_async: the lists of the feeds, in the order of the feeds
fetch_rss_feeds(feeds) == ExtendFrom(feeds, 1)

\* the feeds of a run: one result per feed, MaxEntries entries at most
FeedLists ==
    {f \in [1..NumFeeds -> UNION {FeedResults(p) : p \in 1..NumFeeds}] :
        /\ \A p \in 1..NumFeeds : f[p] \in FeedResults(p)
        /\ Len(fetch_rss_feeds(f)) <= MaxEntries}

\* CheckKey placed in main_async after the initialisation: the cache is
\* swept before the process exits
CheckKeyAfterInit ==
    /\ run.pc = "import"
    /\ run' = [run EXCEPT !.pc = IF run.key THEN "init" ELSE "exit1"]
    /\ cache' = IF run.key THEN cache ELSE clean_old_cache(cache, now)
    /\ UNCHANGED << now, ticks, tasks, finished, db >>

\* if not GEMINI_API_KEY: exit(1), when the module is loaded
CheckKey ==
    /\ run.pc = "import"
    /\ run' = [run EXCEPT !.pc = IF run.key THEN "init" ELSE "exit1"]
    /\ UNCHANGED << cache, now, ticks, tasks, finished, db >>

\* init_cache(); clean_old_cache(); init_database(): the old files are
\* removed, CREATE TABLE IF NOT EXISTS leaves the rows
Initialise ==
    /\ run.pc = "init"
    /\ cache' = clean_old_cache(cache, now)
    /\ run' = [run EXCEPT !.pc = "fetching"]
    /\ UNCHANGED << now, ticks, tasks, finished, db >>

\* the feeds answer: process_entries_async builds entries_data and one
\* call per entry
FetchFeeds ==
    /\ run.pc = "fetching"
    /\ LET entries_data == fetch_rss_feeds(run.feeds)
       IN  /\ run' = [run EXCEPT !.pc = "annotating", !.entries = entries_data]
           /\ tasks' = [t \in DOMAIN entries_data |-> IdleTask]
    /\ UNCHANGED << cache, now, ticks, finished, db >>

\* if not news_data: status = "no_news"; nothing to deduplicate or save
NoNews ==
    /\ run.pc = "fetched"
    /\ run.all_news = << >>
    /\ run' = [run EXCEPT !.pc = "saved"]
    /\ UNCHANGED << cache, now, ticks, tasks, finished, db >>

\* save_news_to_db(news_data)
SaveDb ==
    /\ run.pc = "deduped"
    /\ db' = save_news_to_db(db, run.unique_news)
    /\ run' = [run EXCEPT !.pc = "saved"]
    /\ UNCHANGED << cache, now, ticks, tasks, finished >>

\* generate_html(news_data) and the write of the output file
Render ==
    /\ run.pc = "saved"
    /\ run' = [run EXCEPT !.pc = "done", !.html = run.unique_news]
    /\ UNCHANGED << cache, now, ticks, tasks, finished, db >>

\* Interrupt that saves what the calls have returned so far before exit
InterruptSaving ==
    /\ run.pc = "annotating"
    /\ run' = [run EXCEPT !.pc = "interrupted"]
    /\ db' = save_news_to_db(db, news_list(run.entries,
                                           ai_results(tasks, finished)))
    /\ UNCHANGED << cache, now, ticks, tasks, finished >>

\* KeyboardInterrupt while main_async awaits fetch_rss_feeds_async:
\* exit(0), the calls in flight are abandoned
Interrupt ==
    /\ run.pc = "annotating"
    /\ run' = [run EXCEPT !.pc = "interrupted"]
    /\ UNCHANGED << cache, now, ticks, tasks, finished, db >>

\* the files an earlier run left for TitleA: none, or one written
\* expiry_days + 1, expiry_days or 0 days before the start
MainFiles ==
    {NoFile} \cup
    {[exists |-> TRUE, original_title |-> TitleA,
      data |-> ParseTable[TitleA][TextFull], mtime |-> m, by |-> 0] :
        m \in {0, 1, expiry_days + 1}}

\* the directory an earlier run left: one of the files of TitleA, and next
\* to a file of TitleA that is not too old a file of TitleLong that is
MainCaches ==
    {[k \in Keys |->
        CASE k = get_cache_key(TitleA) -> file
          [] k = get_cache_key(TitleLong) ->
                IF file.exists /\ file.mtime > 0
                THEN [exists |-> TRUE, original_title |-> TitleLong,
                      data |-> ParseTable[TitleLong][TextFull], mtime |-> 0,
                      by |-> 0]
                ELSE NoFile
          [] OTHER -> NoFile] : file \in MainFiles}

MainInit ==
    /\ now = expiry_days + 1
    /\ ticks = 0
    /\ tasks = << >>
    /\ finished = << >>
    /\ cache \in MainCaches
    /\ db = EmptyDb
    /\ \E key \in BOOLEAN, f \in FeedLists :
          run = [NoRun EXCEPT !.pc = "import", !.key = key, !.feeds = f]

\* the response of the run
MainTexts == {TextFull}

MainNext ==
    \/ CheckKey
    \/ Initialise
    \/ FetchFeeds
    \/ \E t \in DOMAIN tasks : RunStart(t)
    \/ \E t \in DOMAIN tasks, text \in MainTexts : OnText(t, text)
    \/ \E t \in DOMAIN tasks, shape \in EmptyShapes : OnEmptyBody(t, shape)
    \/ \E t \in DOMAIN tasks : OnRateLimit(t)
    \/ \E t \in DOMAIN tasks : OnException(t)
    \/ \E t \in DOMAIN tasks : Wake(t)
    \/ Gather
    \/ NoNews
    \/ Dedup
    \/ SaveDb
    \/ Render
    \/ Interrupt

SpecMain == MainInit /\ [][MainNext]_vars

(***************************************************************************)
(* The news table over the runs of the process: each run saves its         *)
(* deduplicated list, and the file keeps its rows from run to run.         *)
(***************************************************************************)
\* articles as a run saves them: two titles no run takes for duplicates,
\* two urls, and the annotation parsed from TextFull or the fallback
DbNews ==
    UNION {{News(Entry(title, url, 1), a) :
                url \in {"u1", "u2"},
                a \in {ParseTable[title][TextFull], get_fallback_summary(title)}} :
           title \in {TitleA, TitleCollisionA}}

\* the lists remove_duplicates hands to save_news_to_db
DbNewsLists ==
    {l \in UNION {[1..n -> DbNews] : n \in 1..MaxEntries} :
        remove_duplicates(l) = l}

\* the run of a list, at the point where it has been deduplicated
DbRun(l) == [NoRun EXCEPT !.pc = "deduped", !.all_news = l, !.unique_news = l]

\* the process is started again, and its run reaches the deduplicated list
NextRun(l) ==
    /\ run.pc = "done"
    /\ db.seq + Len(l) <= MaxSaves
    /\ run' = DbRun(l)
    /\ UNCHANGED << cache, now, ticks, tasks, finished, db >>

DbInit ==
    /\ cache = [k \in Keys |-> NoFile]
    /\ now = 0
    /\ ticks = 0
    /\ tasks = << >>
    /\ finished = << >>
    /\ db = EmptyDb
    /\ \E l \in DbNewsLists : run = DbRun(l)

DbNext ==
    \/ SaveDb
    \/ Render
    \/ \E l \in DbNewsLists : NextRun(l)

SpecDb == DbInit /\ [][DbNext]_vars

(***************************************************************************)
(* The batch of a run when every request and every sleep ends and the      *)
(* event loop runs what is ready.  A request ends in one of the four ways  *)
(* the loop has: return (a text), continue (a status other than 200 and    *)
(* 429), sleep and continue (429, timeout), break (an exception).          *)
(***************************************************************************)
\* the titles of the entries of the batch, in their order
BatchTitles == << TitleA, TitleLong, TitleCollisionA, TitleCollisionB >>

BatchInit ==
    /\ cache = [k \in Keys |-> NoFile]
    /\ now = 0
    /\ ticks = 0
    /\ finished = << >>
    /\ db = EmptyDb
    /\ \E n \in 1..MaxEntries :
          /\ run = [NoRun EXCEPT !.entries =
                        [t \in 1..n |-> Entry(BatchTitles[t], t, 1)]]
          /\ tasks = [t \in 1..n |-> IdleTask]

BatchNext ==
    \/ \E t \in DOMAIN tasks : RunStart(t)
    \/ \E t \in DOMAIN tasks : OnText(t, TextFull)
    \/ \E t \in DOMAIN tasks : OnRateLimit(t)
    \/ \E t \in DOMAIN tasks : OnOtherStatus(t)
    \/ \E t \in DOMAIN tasks : OnTimeout(t)
    \/ \E t \in DOMAIN tasks : OnException(t)
    \/ \E t \in DOMAIN tasks : Wake(t)
    \/ Gather

\* a step is taken as long as one is possible
SpecBatchFair == BatchInit /\ [][BatchNext]_vars /\ WF_vars(BatchNext)

(***************************************************************************)
(* The requests of a run in flight: the feeds are gathered together and    *)
(* each feed gathers the calls of its entries, up to max_news per feed.    *)
(***************************************************************************)
\* the entries of the smallest run with more calls than
\* max_concurrent_requests: max_news entries per feed, feed after feed
CeilingEntries ==
    [t \in 1..(max_concurrent_requests + 1) |->
        Entry(TitleA, t, ((t - 1) \div max_news) + 1)]

CeilingInit ==
    /\ cache = [k \in Keys |-> NoFile]
    /\ now = 0
    /\ ticks = 0
    /\ finished = << >>
    /\ db = EmptyDb
    /\ run = [NoRun EXCEPT !.entries = CeilingEntries]
    /\ tasks = [t \in DOMAIN CeilingEntries |-> IdleTask]

\* the run up to the first answer of each request: the calls start, and a
\* request ends with 429
CeilingNext ==
    \/ \E t \in DOMAIN tasks : RunStart(t)
    \/ \E t \in DOMAIN tasks : OnRateLimit(t)

SpecCeiling == CeilingInit /\ [][CeilingNext]_vars

(***************************************************************************)
(* parse_ai_response on the responses of every subset of the labels: a     *)
(* call on an empty cache, answered by one of them.                        *)
(***************************************************************************)
ParseInit ==
    /\ cache = [k \in Keys |-> NoFile]
    /\ now = 0
    /\ ticks = 0
    /\ tasks = [t \in Tasks |-> IdleTask]
    /\ finished = << >>
    /\ run = NoRun
    /\ db = EmptyDb

ParseNext ==
    \/ \E t \in Tasks, title \in AllTitles : Start(t, title)
    \/ \E t \in Tasks, text \in LabelTexts : OnText(t, text)

SpecParse == ParseInit /\ [][ParseNext]_vars

(***************************************************************************)
(* Claims                                                                  *)
(***************************************************************************)
Done(t) == tasks[t].pc = "done"

\* the call's attempts so far, and the outcome of the latest one
Attempts(t) == Len(tasks[t].hist)
LastKind(t) == tasks[t].hist[Len(tasks[t].hist)].kind

\* the file of the call's title
FileOf(t) == cache[get_cache_key(tasks[t].title)]

\* C1: whatever path a call returned by (cache hit, parsed response,
\* fallback), its translated_title has at least 5 characters or is the
\* original title cut to 50, its short_summary has at least 10 characters
\* and its long_summary at least 20.
C1_MinimumLengths ==
    \A t \in Tasks :
        Done(t) =>
            /\ \/ Len(tasks[t].result.translated_title) >= 5
               \/ tasks[t].result.translated_title = Take(tasks[t].title, 50)
            /\ Len(tasks[t].result.short_summary) >= 10
            /\ Len(tasks[t].result.long_summary) >= 20

\* a parsed response with labelled values that are all too short, for a
\* title under 5 characters: every field was replaced
C1_Witness ==
    \E t \in Tasks :
        /\ Done(t)
        /\ tasks[t].path = "parsed"
        /\ LastKind(t) = "text"
        /\ tasks[t].hist[Attempts(t)].text = TextShortFields
        /\ Len(tasks[t].result.translated_title) < 5

\* C2: the category of every returned annotation is a non-empty string.
C2_CategoryNonEmpty ==
    \A t \in Tasks : Done(t) => tasks[t].result.category # << >>

\* C3: a call that starts while a file for its title exists and is not older
\* than expiry_days returns the file's annotation, sends no request and
\* leaves the cache as it was.
C3_CacheHit ==
    [][\A t \in Tasks :
          LET key == get_cache_key(tasks'[t].title)
          IN  (/\ tasks[t].pc = "idle"
               /\ tasks'[t].pc # "idle"
               /\ cache[key].exists
               /\ now - cache[key].mtime <= expiry_days)
              => /\ tasks'[t].pc = "done"
                 /\ tasks'[t].result = cache[key].data
                 /\ tasks'[t].calls = 0
                 /\ cache' = cache]_vars

\* a call answered from a file that is exactly expiry_days old
C3_Witness ==
    \E t \in Tasks :
        /\ Done(t)
        /\ tasks[t].path = "cache"
        /\ tasks[t].calls = 0
        /\ FileOf(t).exists
        /\ tasks[t].result = FileOf(t).data
        /\ now - FileOf(t).mtime = expiry_days

\* C4: a call that ended on anything but a parsed text returned the
\* title-only fallback, and the file of its title, if any, is not one this
\* call wrote.
C4_FallbackNotCached ==
    \A t \in Tasks :
        (Done(t) /\ Attempts(t) > 0 /\ LastKind(t) # "text")
        => /\ tasks[t].result = get_fallback_summary(tasks[t].title)
           /\ FileOf(t).by # t

\* the budget is used up by two rate-limit answers, for a title with no file
C4_Witness ==
    \E t \in Tasks :
        /\ Done(t)
        /\ Attempts(t) = max_retries
        /\ LastKind(t) = "status429"
        /\ tasks[t].path = "fallback"
        /\ ~FileOf(t).exists

\* an annotation made of the title alone: what the parser builds when the
\* text gives it no field
TitleOnly(a, title) ==
    /\ a.translated_title = Take(title, 50)
    /\ a.short_summary = Take(title, 50) \o ShortSuffix
    /\ a.long_summary = Take(title, 50) \o LongSuffix
    /\ a.category = DefaultCategory

\* C5: no cache file ever holds an annotation made of the title alone.
C5_NoTitleOnlyFile ==
    \A k \in Keys :
        cache[k].exists => ~TitleOnly(cache[k].data, cache[k].original_title)

\* C6: a call sends at most max_retries requests, and at least one once its
\* lookup missed.
C6_RequestBudget ==
    \A t \in Tasks :
        /\ tasks[t].calls <= max_retries
        /\ (tasks[t].pc # "idle" /\ tasks[t].path # "cache")
           => tasks[t].calls >= 1

\* every attempt of the budget failed and one request went out for each
C6_Witness ==
    \E t \in Tasks :
        /\ Done(t)
        /\ tasks[t].path = "fallback"
        /\ tasks[t].calls = max_retries
        /\ Attempts(t) = max_retries

\* C7: after a timeout or an exception of the request on an attempt that is
\* not the last of the budget, the call sleeps the fixed delay and goes on
\* to another attempt.
C7_TransientErrorsRetried ==
    \A t \in Tasks :
        \A i \in 1..Attempts(t) :
            (tasks[t].hist[i].kind \in {"timeout", "exception"} /\ i < max_retries)
            => /\ tasks[t].waits[i] = 1
               /\ (Done(t) => Attempts(t) > i)

\* no pattern of the parser finds a field in the text
NoField(text) ==
    /\ ~FirstMatch(BoldTitle, LblTitle, text).found
    /\ ~FirstMatch(BoldCategory, LblCategory, text).found
    /\ ~FirstMatch(BoldShort, LblShort, text).found
    /\ ~SearchDotAll(BoldLong, text).found
    /\ ~SearchDotAll(LblLong, text).found

\* a 200 answer with nothing to use
Unusable(o) ==
    \/ o.kind \in {"empty_body", "empty_parts"}
    \/ o.kind = "text" /\ NoField(o.text)

\* C8: an unusable 200 answer uses up its attempt, leaves no file written by
\* the call, and is followed by another attempt while the budget lasts.
C8_UnusableBodyRetried ==
    \A t \in Tasks :
        \A i \in 1..Attempts(t) :
            Unusable(tasks[t].hist[i])
            => /\ FileOf(t).by # t
               /\ (i < max_retries /\ Done(t)) => Attempts(t) > i

\* an answer with text is the last attempt of its call, which is over
TextEndsCall ==
    \A t \in Tasks :
        \A i \in 1..Attempts(t) :
            tasks[t].hist[i].kind = "text" => (i = Attempts(t) /\ Done(t))

\* C9: the step that receives a 200 answer with text ends the call: the
\* parsed annotation is the file of the title and the value returned, a
\* lookup right after the step returns it, and no request was sent after it;
\* after every step, an answer with text is the last attempt of its call.
C9_TextIsCachedAndReturned ==
    [][/\ \A t \in Tasks :
            (tasks[t].pc = "request"
             /\ Len(tasks'[t].hist) = Len(tasks[t].hist) + 1
             /\ tasks'[t].hist[Len(tasks'[t].hist)].kind = "text")
            => LET title == tasks[t].title
                   text == tasks'[t].hist[Len(tasks'[t].hist)].text
               IN  /\ tasks'[t].pc = "done"
                   /\ tasks'[t].result = ParseTable[title][text]
                   /\ cache'[get_cache_key(title)].exists
                   /\ cache'[get_cache_key(title)].data = tasks'[t].result
                   /\ get_cached_summary(cache', title, now') = tasks'[t].result
                   /\ tasks'[t].calls = tasks[t].calls
       /\ TextEndsCall']_vars

\* a text on the second attempt, after an empty body: the call's own file
\* holds what it returned
C9_Witness ==
    \E t \in Tasks :
        /\ Done(t)
        /\ Attempts(t) = 2
        /\ tasks[t].hist[1].kind = "empty_body"
        /\ LastKind(t) = "text"
        /\ FileOf(t).by = t
        /\ FileOf(t).data = tasks[t].result
        /\ get_cached_summary(cache, tasks[t].title, now) = tasks[t].result

\* C10: the attempt with index a (the (a+1)-th outcome) that got 429 was
\* followed by a sleep of 2^a seconds; it advanced the attempt index like
\* any other outcome, within the budget; the sleeps after the 429 answers of
\* a call never decrease.
C10_RateLimitBackoff ==
    \A t \in Tasks :
        /\ \A i \in 1..Attempts(t) :
              tasks[t].hist[i].kind = "status429"
              => /\ Len(tasks[t].waits) >= i
                 /\ tasks[t].waits[i] = 2 ^ (i - 1)
        /\ \A i, j \in 1..Attempts(t) :
              (/\ i < j
               /\ tasks[t].hist[i].kind = "status429"
               /\ tasks[t].hist[j].kind = "status429")
              => tasks[t].waits[i] <= tasks[t].waits[j]
        /\ Attempts(t) <= max_retries
        /\ tasks[t].pc = "request" => tasks[t].attempt = Attempts(t)
        /\ tasks[t].pc = "sleep" => tasks[t].calls = Attempts(t)

\* two 429 answers in a row: sleeps of 1 and 2 seconds
C10_Witness ==
    \E t \in Tasks :
        /\ Attempts(t) = 2
        /\ tasks[t].hist[1].kind = "status429"
        /\ tasks[t].hist[2].kind = "status429"
        /\ tasks[t].waits = << 1, 2 >>

\* the first k attempts of the call were all answered with 429
RateLimited(t, k) ==
    \A i \in 1..k : tasks[t].hist[i].kind = "status429"

\* C11: a call answered by k times 429 and then a 200 with text makes
\* min(k + 1, max_retries) attempts.  While k < max_retries the text is
\* received on attempt k + 1 and the call returns its parsed annotation; a
\* call that got nothing but 429 is over only after max_retries attempts,
\* with as many requests, and returns the fallback; it never gets to send
\* the request that the text would have answered.
C11_RateLimitedThenText ==
    \A t \in Tasks :
        \A k \in 0..Attempts(t) :
            RateLimited(t, k)
            => /\ k <= max_retries
               /\ (k < Attempts(t) /\ tasks[t].hist[k + 1].kind = "text")
                  => /\ k < max_retries
                     /\ Attempts(t) = k + 1
                     /\ tasks[t].calls = k + 1
                     /\ Done(t)
                     /\ tasks[t].path = "parsed"
                     /\ tasks[t].result =
                            ParseTable[tasks[t].title][tasks[t].hist[k + 1].text]
               /\ (k = Attempts(t) /\ Done(t) /\ tasks[t].path # "cache")
                  => /\ k = max_retries
                     /\ tasks[t].calls = max_retries
                     /\ tasks[t].path = "fallback"
                     /\ tasks[t].result = get_fallback_summary(tasks[t].title)
               /\ (k = Attempts(t) /\ k < max_retries /\ tasks[t].pc = "sleep")
                  => tasks[t].calls = k
               /\ (k = Attempts(t) /\ k = max_retries)
                  => tasks[t].pc \in {"sleep", "done"}

\* one 429, then the text on the second and last attempt of the budget
C11_Witness ==
    \E t \in Tasks :
        /\ Done(t)
        /\ Attempts(t) = max_retries
        /\ RateLimited(t, max_retries - 1)
        /\ LastKind(t) = "text"
        /\ tasks[t].path = "parsed"
        /\ tasks[t].calls = max_retries

\* the t-th entry of the run is in the list remove_duplicates returned
Survives(t) ==
    \E n \in DOMAIN run.unique_news :
        run.unique_news[n].url = run.entries[t].url

Similar(news1, news2) ==
    AtLeastThreshold(calculate_similarity(news1.original_title,
                                          news2.original_title))

\* C13: the list remove_duplicates returns is the input list restricted to a
\* set K of positions, in input order and with the records as they were; a
\* position is in K exactly when its title is below the threshold against
\* the title of every earlier position in K.  So the first article is kept,
\* and of articles with one title at most the first in input order is.
C13_KeepsFirstOfCluster ==
    run.pc = "deduped"
    => LET l == run.all_news
           u == run.unique_news
       IN  /\ \E K \in SUBSET DOMAIN l :
                 /\ \A i \in DOMAIN l :
                       i \in K <=> \A j \in K : j < i => ~Similar(l[i], l[j])
                 /\ Len(u) = Cardinality(K)
                 /\ \A n \in DOMAIN u : u[n] = l[Nth(K, n)]
           /\ l # << >> => (u # << >> /\ u[1] = l[1])
           /\ \A i, j \in DOMAIN l :
                 (i < j /\ l[i].original_title = l[j].original_title)
                 => \A n \in DOMAIN u : u[n] # l[j]

\* three articles: the second is dropped for the first, and the third is
\* kept although it is within the threshold of the dropped second
C13_Witness ==
    /\ run.pc = "deduped"
    /\ Len(run.all_news) = 3
    /\ run.unique_news = << run.all_news[1], run.all_news[3] >>
    /\ Similar(run.all_news[2], run.all_news[1])
    /\ Similar(run.all_news[3], run.all_news[2])
    /\ ~Similar(run.all_news[3], run.all_news[1])

\* the calls that wrote the file of key k, and the place of a call in the
\* order in which the calls returned
Stores(k) ==
    {t \in DOMAIN tasks :
        /\ tasks[t].pc = "done"
        /\ tasks[t].path = "parsed"
        /\ get_cache_key(tasks[t].title) = k}

Place(t) == CHOOSE n \in DOMAIN finished : finished[n] = t

\* C14: in every state of every interleaving of the calls of a run, a key
\* has no file while no call has stored under it, and otherwise its file is
\* the whole annotation, with the title, that the latest of the storing
\* calls parsed and returned; a call answered from the cache returned the
\* whole annotation of a call that had stored before it.
C14_WholeEntryOfLastStore ==
    /\ \A k \in Keys :
          IF Stores(k) = {} THEN ~cache[k].exists
          ELSE LET last == CHOOSE t \in Stores(k) :
                               \A u \in Stores(k) : Place(u) <= Place(t)
               IN  /\ cache[k].exists
                   /\ cache[k].by = last
                   /\ cache[k].original_title = tasks[last].title
                   /\ cache[k].data = tasks[last].result
                   /\ cache[k].data =
                         ParseTable[tasks[last].title]
                                   [tasks[last].hist[Len(tasks[last].hist)].text]
    /\ \A t \in DOMAIN tasks :
          (tasks[t].pc = "done" /\ tasks[t].path = "cache")
          => \E u \in Stores(get_cache_key(tasks[t].title)) :
                /\ Place(u) < Place(t)
                /\ tasks[t].result = tasks[u].result

\* two calls for one title both missed the cache and both stored, with
\* different texts: the file is that of the call that returned last, here
\* the one that started first
C14_Witness ==
    /\ run.pc = "fetched"
    /\ Len(run.entries) = 2
    /\ tasks[1].title = tasks[2].title
    /\ tasks[1].path = "parsed"
    /\ tasks[2].path = "parsed"
    /\ tasks[1].result # tasks[2].result
    /\ finished = << 2, 1 >>
    /\ FileOf(1).by = 1
    /\ FileOf(1).data = tasks[1].result

\* the annotation fields of a record of the result
AnnotationOf(news) ==
    [translated_title |-> news.translated_title,
     short_summary |-> news.short_summary,
     long_summary |-> news.long_summary, category |-> news.category]

\* C15: once the calls are gathered, the result has one record per entry, in
\* the order of the entries: the i-th record has the title, URL and feed of
\* the i-th entry and the annotation that the call started for that entry's
\* title returned, in whatever order the calls returned.
C15_ResultInInputOrder ==
    run.pc \in {"fetched", "deduped"}
    => /\ DOMAIN run.all_news = DOMAIN run.entries
       /\ \A i \in DOMAIN run.entries :
             /\ run.all_news[i].original_title = run.entries[i].original_title
             /\ run.all_news[i].url = run.entries[i].url
             /\ run.all_news[i].priority = run.entries[i].priority
             /\ tasks[i].title = run.entries[i].original_title
             /\ AnnotationOf(run.all_news[i]) = tasks[i].result
             /\ tasks[i].path = "parsed"
                => tasks[i].result =
                      ParseTable[run.entries[i].original_title]
                                [tasks[i].hist[Len(tasks[i].hist)].text]
             /\ tasks[i].path = "fallback"
                => tasks[i].result =
                      get_fallback_summary(run.entries[i].original_title)

\* the call of the second entry returned before the call of the first, with
\* another annotation, and each record has the annotation of its own call
C15_Witness ==
    /\ run.pc = "fetched"
    /\ finished = << 2, 1 >>
    /\ tasks[1].result # tasks[2].result
    /\ AnnotationOf(run.all_news[1]) = tasks[1].result
    /\ AnnotationOf(run.all_news[2]) = tasks[2].result
    /\ run.all_news[1].url = run.entries[1].url

\* the call of the i-th entry failed: its last attempt gave no text
Failed(i) ==
    /\ Len(tasks[i].hist) > 0
    /\ tasks[i].hist[Len(tasks[i].hist)].kind # "text"

\* C16: whatever calls of a run failed (timeouts, error statuses, 429 to the
\* end of the budget, exceptions), the gathered result has exactly one record
\* per entry, each with its entry's URL: the record of a failed call has the
\* fallback annotation of its title, and the record of every other call the
\* annotation that call returned.
C16_FailureKeepsBatch ==
    run.pc \in {"fetched", "deduped"}
    => /\ Len(run.all_news) = Len(run.entries)
       /\ \A i \in DOMAIN run.entries :
             /\ i \in DOMAIN run.all_news
             /\ run.all_news[i].url = run.entries[i].url
             /\ Failed(i)
                => AnnotationOf(run.all_news[i]) =
                      get_fallback_summary(run.entries[i].original_title)
             /\ ~Failed(i)
                => /\ AnnotationOf(run.all_news[i]) = tasks[i].result
                   /\ tasks[i].path \in {"parsed", "cache"}

\* the first call ended on an exception, the second returned a parsed text:
\* two records, the first with the fallback
C16_Witness ==
    /\ run.pc = "fetched"
    /\ Len(run.entries) = 2
    /\ Len(run.all_news) = 2
    /\ Failed(1)
    /\ tasks[1].hist[Len(tasks[1].hist)].kind = "exception"
    /\ tasks[2].path = "parsed"
    /\ AnnotationOf(run.all_news[1]) = get_fallback_summary(tasks[1].title)
    /\ AnnotationOf(run.all_news[2]) = tasks[2].result

\* C17: after the step in which a call stores the annotation a it parsed for
\* its title, whether or not a file of that title existed before, a lookup of
\* the title returns a, field for field, now and at every time up to
\* expiry_days later.
C17_StoreThenLookup ==
    [][\A t \in DOMAIN tasks :
          (/\ tasks[t].pc = "request"
           /\ Len(tasks'[t].hist) = Len(tasks[t].hist) + 1
           /\ tasks'[t].hist[Len(tasks'[t].hist)].kind = "text")
          => LET title == tasks[t].title
                 a == ParseTable[title][tasks'[t].hist[Len(tasks'[t].hist)].text]
             IN  \A d \in 0..expiry_days :
                    LET found == get_cached_summary(cache', title, now' + d)
                    IN  /\ found.translated_title = a.translated_title
                        /\ found.short_summary = a.short_summary
                        /\ found.long_summary = a.long_summary
                        /\ found.category = a.category]_vars

\* the second of two calls for one title stored over the file of the first,
\* with another annotation, and a lookup finds the second one's, up to
\* expiry_days later
C17_Witness ==
    /\ Len(run.entries) = 2
    /\ finished = << 1, 2 >>
    /\ tasks[1].title = tasks[2].title
    /\ tasks[1].path = "parsed"
    /\ tasks[2].path = "parsed"
    /\ tasks[1].result # tasks[2].result
    /\ get_cached_summary(cache, tasks[2].title, now + expiry_days)
          = tasks[2].result

\* C18: a lookup that finds a file written at time T returns the file's
\* annotation, and leaves the directory as it is, exactly when
\* now - T <= expiry_days; when now - T > expiry_days it returns nothing,
\* the file is removed and the call goes on to its request.  A key without a
\* file gets one only by a store, whose file has the time of the store.
C18_ExpiryAtLookup ==
    [][/\ \A t \in DOMAIN tasks :
             LET k == get_cache_key(tasks'[t].title)
             IN  (tasks[t].pc = "idle" /\ tasks'[t].pc # "idle" /\ cache[k].exists)
                 => /\ (now - cache[k].mtime <= expiry_days)
                       <=> /\ tasks'[t].pc = "done"
                           /\ tasks'[t].path = "cache"
                           /\ tasks'[t].result = cache[k].data
                           /\ cache' = cache
                    /\ (now - cache[k].mtime > expiry_days)
                       => /\ tasks'[t].pc = "request"
                          /\ ~cache'[k].exists
       /\ \A k \in Keys :
             (~cache[k].exists /\ cache'[k].exists)
             => /\ cache'[k].mtime = now
                /\ \E t \in DOMAIN tasks :
                      /\ tasks[t].pc = "request"
                      /\ tasks'[t].path = "parsed"
                      /\ get_cache_key(tasks[t].title) = k]_vars

\* the first call stored at time 0; the second call, for the same title,
\* looked it up expiry_days + 1 later: it is at its request and the file is
\* gone
C18_Witness ==
    /\ Len(run.entries) = 2
    /\ tasks[1].pc = "done"
    /\ tasks[1].path = "parsed"
    /\ tasks[2].title = tasks[1].title
    /\ tasks[2].pc = "request"
    /\ tasks[2].hist = << >>
    /\ finished = << 1 >>
    /\ now = expiry_days + 1
    /\ ~FileOf(2).exists

\* C19: no step of a call ends it with an exception.  A call that starts
\* while an unexpired file of its title exists either returns the file's
\* annotation or, the read having failed, sends its first request with the
\* directory unchanged; the step that receives a text returns the parsed
\* annotation whether or not the write left the file of the call.
C19_CacheFailuresSwallowed ==
    [][\A t \in Tasks :
          /\ tasks'[t].path # "raised"
          /\ tasks'[t].result # Raised
          /\ LET k == get_cache_key(tasks'[t].title)
             IN  (/\ tasks[t].pc = "idle"
                  /\ tasks'[t].pc # "idle"
                  /\ cache[k].exists
                  /\ ~Expired(cache, k, now))
                 => \/ /\ tasks'[t].pc = "done"
                       /\ tasks'[t].path = "cache"
                       /\ tasks'[t].result = cache[k].data
                    \/ /\ tasks'[t].pc = "request"
                       /\ tasks'[t].calls = 1
                       /\ cache' = cache
          /\ (/\ tasks[t].pc = "request"
              /\ Len(tasks'[t].hist) = Len(tasks[t].hist) + 1
              /\ tasks'[t].hist[Len(tasks'[t].hist)].kind = "text")
             => /\ tasks'[t].pc = "done"
                /\ tasks'[t].path = "parsed"
                /\ tasks'[t].result =
                      ParseTable[tasks[t].title]
                                [tasks'[t].hist[Len(tasks'[t].hist)].text]]_vars

\* a call returned a parsed text while the readable, unexpired file an
\* earlier run wrote for its title is still there: the read of the file had
\* failed, and so did the write
C19_Witness ==
    \E t \in Tasks :
        /\ Done(t)
        /\ tasks[t].path = "parsed"
        /\ tasks[t].calls = 1
        /\ FileOf(t).exists
        /\ FileOf(t).by = 0
        /\ ~Unreadable(FileOf(t))
        /\ ~Expired(cache, get_cache_key(tasks[t].title), now)
        /\ FileOf(t).data # tasks[t].result

\* C20: the cache key depends on the title alone: calls with one title use
\* one key whatever the URL and feed of their articles, and a call answered
\* from the cache returned an annotation that an earlier call stored for the
\* same title.
C20_EntryOfOwnTitle ==
    /\ \A t, u \in DOMAIN tasks :
          (tasks[t].pc # "idle" /\ tasks[u].pc # "idle"
           /\ run.entries[t].original_title = run.entries[u].original_title)
          => get_cache_key(tasks[t].title) = get_cache_key(tasks[u].title)
    /\ \A t \in DOMAIN tasks :
          (tasks[t].pc = "done" /\ tasks[t].path = "cache")
          => \E u \in DOMAIN tasks :
                /\ tasks[u].pc = "done"
                /\ tasks[u].path = "parsed"
                /\ tasks[u].title = tasks[t].title
                /\ Place(u) < Place(t)
                /\ tasks[u].result = tasks[t].result

(***************************************************************************)
(* C21..C30                                                                *)
(***************************************************************************)
\* the cache file of a title
FileOfTitle(title) == cache[get_cache_key(title)]

\* what a call hands to its caller is a 4-tuple of strings, not an exception
IsAnnotation(a) ==
    /\ a # None
    /\ a # Raised
    /\ DOMAIN a = {"translated_title", "short_summary", "long_summary",
                   "category"}

\* C21: whatever the request ends with (a text, a body of another shape, an
\* empty parts list, 429, another status, a timeout, an exception) and
\* whatever the cache holds, no exception leaves a call: a call is idle,
\* waiting for its request or its sleep, or has returned an annotation,
\* taken from the cache, parsed from the text, or the fallback.
C21_NeverRaises ==
    \A t \in DOMAIN tasks :
        /\ tasks[t].pc \in {"idle", "request", "sleep", "done"}
        /\ tasks[t].path # "raised"
        /\ Done(t) => /\ tasks[t].path \in {"cache", "parsed", "fallback"}
                      /\ IsAnnotation(tasks[t].result)

\* a call whose body had an empty parts list returned the fallback
C21_Witness ==
    \E t \in DOMAIN tasks :
        /\ Done(t)
        /\ Attempts(t) >= 1
        /\ LastKind(t) = "empty_parts"
        /\ tasks[t].result = get_fallback_summary(tasks[t].title)

\* the label is in the text, in its plain or its bold form
Present(label, text) ==
    CASE label = "title" -> Contains(text, LblTitle) \/ Contains(text, BoldTitle)
      [] label = "category" ->
            Contains(text, LblCategory) \/ Contains(text, BoldCategory)
      [] label = "short" -> Contains(text, LblShort) \/ Contains(text, BoldShort)
      [] label = "long" -> Contains(text, LblLong) \/ Contains(text, BoldLong)

\* the labels of the text, as a set
LabelsOf(text) == {label \in Labels : Present(label, text)}

\* C22: for every subset of the four labels present in the text, the parser
\* returns a complete 4-tuple: without the title label the translated title
\* is the first 50 characters of the original title, without the short or
\* the long label that summary is the templated sentence on the translated
\* title, and without the category label the category is CATEGORIES[0].
C22_MissingLabelsFilled ==
    \A t \in DOMAIN tasks :
        (Done(t) /\ Attempts(t) >= 1 /\ LastKind(t) = "text") =>
            LET text == tasks[t].hist[Len(tasks[t].hist)].text
                a == tasks[t].result
            IN  /\ tasks[t].path = "parsed"
                /\ IsAnnotation(a)
                /\ ~Present("title", text) =>
                        a.translated_title = Take(tasks[t].title, 50)
                /\ ~Present("short", text) =>
                        a.short_summary = a.translated_title \o ShortSuffix
                /\ ~Present("long", text) =>
                        a.long_summary = a.translated_title \o LongSuffix
                /\ ~Present("category", text) => a.category = DefaultCategory

\* a title of more than 50 characters parsed from a text with the short
\* label alone: three of the four fields are filled in
C22_Witness ==
    \E t \in DOMAIN tasks :
        /\ Done(t)
        /\ tasks[t].path = "parsed"
        /\ Len(tasks[t].title) > 50
        /\ LabelsOf(tasks[t].hist[Len(tasks[t].hist)].text) = {"short"}
        /\ tasks[t].result.translated_title = Take(tasks[t].title, 50)
        /\ tasks[t].result.category = DefaultCategory

\* the feed failed: feedparser raised, or it returned no entry
FeedFailed(p) == run.feeds[p].kind \in {"raises", "no_entries"}

\* the entries the run annotates that came from feed p, in their order
EntriesOf(p) ==
    LET FromFeed(e) == e.priority = p
    IN  SelectSeq(run.entries, FromFeed)

\* the steps of main_async and of its calls, the interruption left out
MainSteps ==
    \/ FetchFeeds
    \/ \E t \in DOMAIN tasks : RunStart(t)
    \/ \E t \in DOMAIN tasks : OnException(t)
    \/ \E t \in DOMAIN tasks : Wake(t)
    \/ Gather
    \/ NoNews
    \/ Dedup
    \/ SaveDb
    \/ Render

\* C23: a feed that raises or returns no entry contributes no article and
\* does not stop the run: once the feeds have answered, the entries of the
\* run are those of the other feeds, every one of them, the run can always
\* take its next step, and at its end the list made from them has been
\* deduplicated, saved to the table and rendered.
C23_FailedFeedIsSkipped ==
    run.pc \in {"annotating", "fetched", "deduped", "saved", "done"} =>
        /\ \A p \in DOMAIN run.feeds :
              IF FeedFailed(p)
              THEN EntriesOf(p) = << >>
              ELSE EntriesOf(p) = run.feeds[p].entries
        /\ run.pc # "done" => ENABLED MainSteps
        /\ run.pc \in {"fetched", "deduped", "saved", "done"} =>
              /\ Len(run.all_news) = Len(run.entries)
              /\ \A i \in DOMAIN run.entries :
                    run.all_news[i].url = run.entries[i].url
        /\ run.pc = "done" =>
              /\ run.unique_news = remove_duplicates(run.all_news)
              /\ run.html = run.unique_news
              /\ \A i \in DOMAIN run.unique_news :
                    \E r \in db.rows : r.url = run.unique_news[i].url

\* the first feed raised and the run ended with an article of the second
\* feed in the table and on the page
C23_Witness ==
    /\ run.pc = "done"
    /\ run.feeds[1].kind = "raises"
    /\ run.feeds[2].kind = "entries"
    /\ run.html # << >>
    /\ \E r \in db.rows : r.url = run.html[1].url

\* C24: without the API key the process exits as its first step, before a
\* feed is fetched, a call exists, a cache file is touched or a row is
\* written; and that is the only step that ends the process with an error:
\* no step of a call (exception, 429, a body of another shape, the last
\* attempt) leaves the phase in which the calls are gathered.
C24_ExitOnlyWithoutKey ==
    [][/\ (run.pc = "import" /\ ~run.key) => run'.pc = "exit1"
       /\ run'.pc = "exit1" =>
             /\ run.pc = "import" /\ ~run.key
             /\ tasks = << >> /\ tasks' = << >>
             /\ run'.entries = << >>
             /\ cache' = cache
             /\ db' = db /\ db = EmptyDb
       /\ tasks' # tasks => run'.pc \in {"annotating", run.pc}]_vars

\* the process has exited without the key: the file an earlier run left,
\* older than expiry_days, is still there and the entries of the feeds
\* were not fetched
C24_Witness ==
    /\ run.pc = "exit1"
    /\ ~run.key
    /\ \E p \in DOMAIN run.feeds : run.feeds[p].kind = "entries"
    /\ FileOfTitle(TitleA).exists
    /\ now - FileOfTitle(TitleA).mtime > expiry_days

\* the row holds the fields of the article
RowOf(r, news) ==
    /\ r.url = news.url
    /\ r.original_title = news.original_title
    /\ r.translated_title = news.translated_title
    /\ r.short_summary = news.short_summary
    /\ r.long_summary = news.long_summary
    /\ r.category = news.category

C26_RunCompletes == <>(run.pc # "annotating")

\* the list has been built although a call failed at every attempt
C26_Witness ==
    /\ run.pc = "fetched"
    /\ \E t \in DOMAIN tasks :
          /\ Attempts(t) = max_retries
          /\ \A n \in 1..max_retries : tasks[t].hist[n].kind # "text"
          /\ tasks[t].path = "fallback"
    /\ Len(run.all_news) = Len(run.entries)

\* C27: for every title, the fallback a call returns after its attempts
\* failed equals, field by field, what parse_ai_response makes of a text
\* without any of the four labels for that title.
C27_FallbackIsParserDefault ==
    \A t \in DOMAIN tasks :
        (Done(t) /\ tasks[t].path = "fallback") =>
            tasks[t].result = ParseTable[tasks[t].title][TextNone]

\* the calls whose request has been sent and has not ended
InFlight == {t \in DOMAIN tasks : tasks[t].pc = "request"}

\* C28: at every moment of a run the number of requests in flight is at
\* most max_concurrent_requests.
C28_RequestsWithinCeiling == Cardinality(InFlight) <= max_concurrent_requests

\* the file was written by a call of this run, for the title of that call,
\* after a response with a text, and holds what the call returned
WrittenAfterText(file) ==
    /\ file.by \in DOMAIN tasks
    /\ Done(file.by)
    /\ tasks[file.by].path = "parsed"
    /\ LastKind(file.by) = "text"
    /\ file.original_title = tasks[file.by].title
    /\ file.data = tasks[file.by].result
    /\ IsAnnotation(file.data)

\* C29: while the calls of a run are in flight, and when the run is
\* interrupted there, nothing partial is stored: every cache file is one an
\* earlier run left or was written whole after a response with a text for
\* the title of the call that wrote it, and the table has no row.
C29_NothingPartialAtInterrupt ==
    run.pc \in {"annotating", "interrupted"} =>
        /\ \A k \in DOMAIN cache :
              cache[k].exists =>
                  \/ cache[k].by = 0 /\ cache[k] \in MainFiles
                  \/ WrittenAfterText(cache[k])
        /\ db.rows = {}

\* the run was interrupted with one call waiting for its answer, after
\* another call had stored its annotation
C29_Witness ==
    /\ run.pc = "interrupted"
    /\ \E t \in DOMAIN tasks : tasks[t].pc = "request"
    /\ \E k \in DOMAIN cache : cache[k].exists /\ cache[k].by # 0
    /\ db.rows = {}

\* the age of a file, in days
Age(file) == now - file.mtime

\* C30: clean_old_cache runs once, when the process starts and before any
\* call has looked into the cache; it removes every file older than
\* expiry_days and leaves every other file, a file of exactly expiry_days
\* included, as it is.
C30_SweepAtStart ==
    [][/\ (run.pc = "init" /\ run'.pc # "init") =>
             \A k \in DOMAIN cache :
                 IF cache[k].exists /\ Age(cache[k]) > expiry_days
                 THEN ~cache'[k].exists
                 ELSE cache'[k] = cache[k]
       /\ run'.pc = "init" => run.pc = "import"
       /\ run.pc \in {"import", "init"} => tasks = << >> /\ tasks' = << >>
       /\ run.pc # "init" =>
             \A k \in DOMAIN cache :
                 (cache[k].exists /\ ~cache'[k].exists) =>
                     \E t \in DOMAIN tasks : tasks'[t] # tasks[t]]_vars

\* after the sweep the file of exactly expiry_days is there and the older
\* file that stood next to it is gone
C30_Witness ==
    /\ run.pc = "fetching"
    /\ FileOfTitle(TitleA).exists
    /\ Age(FileOfTitle(TitleA)) = expiry_days
    /\ ~FileOfTitle(TitleLong).exists

(***************************************************************************)
(* C31..C32                                                                *)
(***************************************************************************)
\* the title the text gives under its label, and whether the validation
\* rejects it
ExtractedTitle(text) == ExtractLine(FirstMatch(BoldTitle, LblTitle, text))

TitleRejected(text) ==
    /\ FirstMatch(BoldTitle, LblTitle, text).found
    /\ Len(ExtractedTitle(text)) < 5

\* the text gives no short summary of 10 characters, no long one of 20
ShortRejected(text) ==
    LET ms == FirstMatch(BoldShort, LblShort, text)
    IN  ~ms.found \/ Len(ExtractShort(ms)) < 10

LongRejected(text) == Len(ExtractLong(text)) < 20

\* which fields of each response the validation rejects, computed once
Rejected ==
    [text \in ApiTexts |->
        [title |-> TitleRejected(text), short |-> ShortRejected(text),
         long |-> LongRejected(text)]]

\* C31: the title is validated before the summaries: when the title taken
\* from the text is empty or shorter than 5 characters the translated title
\* is the first 50 characters of the original title, and a summary that
\* fails its minimum length is the sentence built on that replacement, not
\* on the rejected title.
C31_SummariesFromReplacedTitle ==
    \A t \in DOMAIN tasks :
        (Done(t) /\ tasks[t].path = "parsed") =>
            LET text == tasks[t].hist[Len(tasks[t].hist)].text
                a == tasks[t].result
                replacement == Take(tasks[t].title, 50)
            IN  Rejected[text].title =>
                    /\ a.translated_title = replacement
                    /\ Rejected[text].short =>
                            a.short_summary = replacement \o ShortSuffix
                    /\ Rejected[text].long =>
                            a.long_summary = replacement \o LongSuffix

\* a title of 51 characters whose text gave a title of 2 characters and two
\* summaries that are too short: both sentences start with the 50 characters
C31_Witness ==
    \E t \in DOMAIN tasks :
        /\ Done(t)
        /\ tasks[t].path = "parsed"
        /\ tasks[t].title = TitleLong
        /\ LET text == tasks[t].hist[Len(tasks[t].hist)].text
           IN  /\ Rejected[text].title
               /\ ExtractedTitle(text) # << >>
               /\ Rejected[text].short
               /\ Rejected[text].long
        /\ tasks[t].result.short_summary = Take(TitleLong, 50) \o ShortSuffix
        /\ tasks[t].result.long_summary = Take(TitleLong, 50) \o LongSuffix

\* call t returns in this step what its lookup found in the file of key k
HitStep(t, k) ==
    /\ tasks[t].pc = "idle"
    /\ tasks'[t].pc = "done"
    /\ tasks'[t].path = "cache"
    /\ get_cache_key(tasks'[t].title) = k

\* call t stores in this step the annotation parsed for the given title
StoreStep(t, title) ==
    /\ tasks[t].pc = "request"
    /\ tasks'[t].pc = "done"
    /\ tasks'[t].path = "parsed"
    /\ tasks[t].title = title

\* C32: the age of an entry counts from its latest store: a lookup that
\* hits leaves the file and its time as they are, and the file of an entry
\* is replaced, with the time of the step, only by a store for the title
\* the entry was stored for.
C32_OnlyStoreOfTitleResetsAge ==
    [][\A k \in Keys :
          cache[k].exists =>
              /\ (\E t \in DOMAIN tasks : HitStep(t, k)) => cache'[k] = cache[k]
              /\ (cache'[k].exists /\ cache'[k] # cache[k]) =>
                    /\ cache'[k].mtime = now
                    /\ \E t \in DOMAIN tasks :
                          StoreStep(t, cache[k].original_title)]_vars

====
